---- MODULE Spec2Model ----
(***************************************************************************)
(* Credential and session lifecycle of the IAM service: login, refresh     *)
(* token rotation with reuse detection, client credentials, and the unit   *)
(* of work that commits or rolls back each service call.                   *)
(***************************************************************************)
EXTENDS Integers, Sequences, FiniteSets, TLC

VARIABLES users, tokens, now, nextId, last, rotated, clients, authLog, tx, lock,
          role_permissions, bearer

vars == <<users, tokens, now, nextId, last, rotated, clients, authLog, tx, lock,
          role_permissions, bearer>>

(* ------------------------------ bounds -------------------------------- *)

\* number of refresh token records the model lets the service create
MaxTokens == 3
\* the clock runs from 0 to MaxTime
MaxTime == 2
\* refresh token lifetime in clock ticks (settings.REFRESH_TOKEN_EXPIRE_DAYS)
RefreshTTL == 1
\* access token lifetime in clock ticks (settings.ACCESS_TOKEN_EXPIRE_MINUTES)
AccessTTL == 1
\* number of refresh token records created before the logout endpoint is called
MaxSessions == 2

(* ------------------------------ values -------------------------------- *)

\* presented_jti = None
NoJti == 0
\* a lookup that found no row
NoRow == 0
\* a nullable timestamp column holding NULL
NoTime == -1

UserIds == {"u1", "u2", "u3"}
ClientKeys == {"k1", "k2"}
Emails == {"a@x", "b@x", "c@x", "nobody@x"}
Passwords == {"pw1", "pw2", "pw3", ""}
ClientIds == {"c1", "c2", "c9"}
Secrets == {"s1", "s2", ""}
Procs == {"p1", "p2"}
Roles == {"R1", "R2"}
Perms == {"p1", "p2", "p3"}
\* strings uuid.UUID accepts: the ids of the rows, and one id no row has
UUIDs == UserIds \cup ClientKeys \cup {"u9"}
\* the signing key of the deployment, and a key of somebody else
JWT_SECRET_KEY == "key"
SigningKeys == {JWT_SECRET_KEY, "other"}

\* raw refresh secrets a caller may present: every one generated so far, and
\* one the service has not generated (n is the next fresh value)
PresentedRaw(n) == 1..n

\* a secret other than the one issued together with jti
WrongRaw(jti, n) == IF jti = n THEN 1 ELSE jti + 1

\* what a caller may present to the refresh call: any secret without a jti,
\* or a jti (issued or not) with its own secret or with another secret
Presented(n) ==
    {<<raw, NoJti>> : raw \in PresentedRaw(n)}
        \cup {<<jti, jti>> : jti \in 1..n}
        \cup {<<WrongRaw(jti, n), jti>> : jti \in 1..n}

(* ------------------------- core/security.py --------------------------- *)

\* pwd_context.hash: the argon2 digest of a password (the salt is left out)
hash_password(password) == <<"argon2", password>>

\* verify_password: raises ValueError on an empty argument, else verifies
verify_password(plain_password, hashed_password) ==
    IF plain_password = "" \/ hashed_password = <<>>
    THEN [exc |-> "ValueError", msg |-> "Passwords cannot be empty.", ok |-> FALSE]
    ELSE [exc |-> "none", msg |-> "", ok |-> (hashed_password = hash_password(plain_password))]

\* hash_refresh_token: HMAC-SHA256 of the raw token under REFRESH_TOKEN_SECRET
hash_refresh_token(raw_token) == <<"hmac", raw_token>>

\* generate_raw_refresh_token: a fresh random secret and a fresh uuid4
generate_raw_refresh_token(n) == [raw |-> n, jti |-> n]

\* refresh_token_expiry_datetime: now + REFRESH_TOKEN_EXPIRE_DAYS
refresh_token_expiry_datetime(t) == t + RefreshTTL

\* AccessTokenType
USER == "user"
CLIENT == "client"

\* no access token
NoToken == [key |-> "none", claims |-> <<>>]

\* _create_access_token: iat and exp are added to the claims, and the whole is
\* signed with JWT_SECRET_KEY (the random jti of the access token is left out)
create_access_token(payload_extra, t) ==
    [key |-> JWT_SECRET_KEY,
     claims |-> payload_extra @@ [iat |-> t, exp |-> t + AccessTTL]]

\* create_user_access_token, as AuthService calls it
create_user_access_token(subject, permissions, is_superuser, require_password_change, t) ==
    create_access_token([sub |-> subject, type |-> USER, permissions |-> permissions,
                         is_superuser |-> is_superuser,
                         require_password_change |-> require_password_change], t)

create_client_access_token(subject, permissions, t) ==
    create_access_token([sub |-> subject, type |-> CLIENT, permissions |-> permissions,
                         is_superuser |-> FALSE], t)

\* TokenPair(access_token, jti, expires_in), or the exception raised instead
TokenPair(exc, access_token, jti, expires_in) ==
    [exc |-> exc, access_token |-> access_token, jti |-> jti, expires_in |-> expires_in]

\* _create_access_token with its expires_minutes argument (<<>> is None, <<m>>
\* is m) and the jti that uuid4 gives; JWT_ACCESS_TOKEN_EXPIRE_MINUTES is
\* AccessTTL, and payload.update lets the extras override iat, exp and jti
_create_access_token(payload_extra, expires_minutes, t, uuid) ==
    LET expire_minutes == IF expires_minutes # <<>> /\ expires_minutes[1] # 0
                          THEN expires_minutes[1]
                          ELSE AccessTTL
        expire == t + expire_minutes
    IN
    IF expire_minutes <= 0
    THEN TokenPair("ValueError", NoToken, NoJti, 0)
    ELSE TokenPair("none",
                   [key |-> JWT_SECRET_KEY,
                    claims |-> payload_extra @@ [iat |-> t, exp |-> expire, jti |-> uuid]],
                   uuid, expire - t)

\* TokenPayload(**payload_dict): sub, exp and iat are required, type, roles,
\* is_superuser and client_id have defaults, and claims that are no field
\* are dropped. The jti is kept where the claims carry one.
TokenPayload(d) ==
    [sub |-> d.sub, exp |-> d.exp, iat |-> d.iat,
     type |-> IF "type" \in DOMAIN d THEN d.type ELSE USER,
     roles |-> IF "roles" \in DOMAIN d THEN d.roles ELSE {},
     is_superuser |-> IF "is_superuser" \in DOMAIN d THEN d.is_superuser ELSE FALSE]
        @@ (IF "jti" \in DOMAIN d THEN [jti |-> d.jti] ELSE <<>>)
        @@ (IF "client_id" \in DOMAIN d THEN [client_id |-> d.client_id] ELSE <<>>)

\* decode_token: jose verifies the signature and then the expiry (a token is
\* expired once exp < now), and the claims are validated as a TokenPayload
decode_token(token, t) ==
    IF token.key # JWT_SECRET_KEY
    THEN [exc |-> "JWTError", msg |-> "Signature verification failed."]
    ELSE IF "exp" \in DOMAIN token.claims /\ token.claims.exp < t
    THEN [exc |-> "ExpiredSignatureError", msg |-> "Signature has expired."]
    ELSE IF ~({"sub", "exp", "iat"} \subseteq DOMAIN token.claims)
    THEN [exc |-> "ValidationError", msg |-> "Field required"]
    ELSE [exc |-> "none", msg |-> "", payload |-> TokenPayload(token.claims)]

(* -------------------- repositories/refresh_token.py ------------------- *)

create_refresh_token(db, jti, user_id, hashed_token, expires_at) ==
    db @@ (jti :> [jti |-> jti, user_id |-> user_id, hashed_token |-> hashed_token,
                   expires_at |-> expires_at, revoked |-> FALSE,
                   replaced_by |-> NoJti, last_used_at |-> NoTime])

get_by_token_hash(db, token_hash) ==
    IF \E j \in DOMAIN db : db[j].hashed_token = token_hash
    THEN CHOOSE j \in DOMAIN db : db[j].hashed_token = token_hash
    ELSE NoRow

\* a lookup whose WHERE clause is lost: any row answers an unknown jti
get_refresh_token_by_jti_AnyRow(db, jti) ==
    IF jti \in DOMAIN db THEN jti
    ELSE IF DOMAIN db # {} THEN CHOOSE j \in DOMAIN db : TRUE ELSE NoRow

get_refresh_token_by_jti(db, jti) ==
    IF jti \in DOMAIN db THEN jti ELSE NoRow

\* an update that flips the flag instead of setting it
revoke_refresh_token_Toggle(db, jti) ==
    [j \in DOMAIN db |-> IF j = jti THEN [db[j] EXCEPT !.revoked = ~@] ELSE db[j]]

revoke_refresh_token(db, jti) ==
    [j \in DOMAIN db |-> IF j = jti THEN [db[j] EXCEPT !.revoked = TRUE] ELSE db[j]]

\* an update that links the successor but forgets revoked = True
mark_refresh_token_replaced_NoRevoke(db, old_jti, new_jti) ==
    [j \in DOMAIN db |->
        IF j = old_jti THEN [db[j] EXCEPT !.replaced_by = new_jti] ELSE db[j]]

mark_refresh_token_replaced(db, old_jti, new_jti) ==
    [j \in DOMAIN db |->
        IF j = old_jti THEN [db[j] EXCEPT !.revoked = TRUE, !.replaced_by = new_jti]
        ELSE db[j]]

\* an update whose WHERE clause is lost: every owner's rows are revoked
revoke_all_refresh_tokens_for_user_AllUsers(db, user_id) ==
    [j \in DOMAIN db |-> [db[j] EXCEPT !.revoked = TRUE]]

revoke_all_refresh_tokens_for_user(db, user_id) ==
    [j \in DOMAIN db |->
        IF db[j].user_id = user_id THEN [db[j] EXCEPT !.revoked = TRUE] ELSE db[j]]

\* an update whose WHERE clause is lost: every row is touched
update_refresh_token_last_used_AllRows(db, jti, used_at) ==
    [j \in DOMAIN db |-> [db[j] EXCEPT !.last_used_at = used_at]]

update_refresh_token_last_used(db, jti, used_at) ==
    [j \in DOMAIN db |-> IF j = jti THEN [db[j] EXCEPT !.last_used_at = used_at] ELSE db[j]]

(* -------------------------- db/unit_of_work.py ------------------------ *)

\* a unit of work that commits whatever happened in the block
aexit_NoRollback(committed, session, raised) == session

\* SQLAlchemyUnitOfWork.__aexit__: roll back when the block raised, else commit
aexit(committed, session, raised) ==
    IF raised THEN committed ELSE session

(* ------------------------------ users --------------------------------- *)

read_by_email(us, email) ==
    IF \E u \in DOMAIN us : us[u].email = email
    THEN CHOOSE u \in DOMAIN us : us[u].email = email
    ELSE "none"

read_by_id(us, user_id) ==
    IF user_id \in DOMAIN us THEN user_id ELSE "none"

update_last_login(us, user_id, t) ==
    [us EXCEPT ![user_id].last_login = t]

(* ------------------------ repositories/auth.py ------------------------ *)

\* a query that found no row (scalar_one_or_none gives None)
None == [id |-> "none"]

\* a query that loads the roles without their permissions
get_user_for_auth_NoPermissions(us, rp, user_id) ==
    IF user_id \in DOMAIN us
    THEN [id |-> user_id, is_active |-> us[user_id].is_active,
          is_superuser |-> us[user_id].is_superuser,
          require_password_change |-> us[user_id].require_password_change,
          roles |-> [r \in us[user_id].roles |-> {}]]
    ELSE None

\* AuthRepository.get_user_for_auth: the user row with its roles and their
\* permissions loaded, or None
get_user_for_auth(us, rp, user_id) ==
    IF user_id \in DOMAIN us
    THEN [id |-> user_id, is_active |-> us[user_id].is_active,
          is_superuser |-> us[user_id].is_superuser,
          require_password_change |-> us[user_id].require_password_change,
          roles |-> [r \in us[user_id].roles |-> rp[r]]]
    ELSE None

\* AuthRepository.get_client_for_auth: the client row with that primary key, or None
get_client_for_auth(cs, id) ==
    IF id \in DOMAIN cs
    THEN [id |-> id, is_active |-> cs[id].is_active, permissions |-> cs[id].permissions]
    ELSE None

(* ------------------------- services/auth.py --------------------------- *)

\* a comprehension that stops after one role
user_permissions_OneRole(user) ==
    IF DOMAIN user.roles = {} THEN {}
    ELSE user.roles[CHOOSE r \in DOMAIN user.roles : TRUE]

\* {perm.name for role in user.roles for perm in role.permissions}
user_permissions(user) ==
    UNION {user.roles[r] : r \in DOMAIN user.roles}

\* [p.name for p in client.permissions] if client.permissions else []
client_permissions(client) ==
    IF client.permissions # {} THEN client.permissions ELSE {}

\* the access token login and refresh build for the user they load again
user_access_token(us, rp, user_id, t) ==
    LET user == get_user_for_auth(us, rp, user_id) IN
    create_user_access_token(user.id, user_permissions(user), user.is_superuser,
                             user.require_password_change, t)

\* the outcome of a service call: the exception raised ("none" on return),
\* its message, the session's view of both tables when the block ended and
\* the returned token pair
Outcome(exc, msg, us, db, ret_raw, ret_jti, sub) ==
    [exc |-> exc, msg |-> msg, users |-> us, db |-> db,
     ret_raw |-> ret_raw, ret_jti |-> ret_jti, sub |-> sub, access |-> NoToken]

\* a call that returns with an access token
Issued(o, access_token) == [o EXCEPT !.access = access_token]

\* AuthService.login, the body of the unit of work
login(us, rp, db, email, password, t, n) ==
    LET user == read_by_email(us, email) IN
    IF user = "none"
    THEN Outcome("UnauthorizedError", "Invalid credentials", us, db, 0, 0, "none")
    ELSE
    LET v == verify_password(password, us[user].hashed_password) IN
    IF v.exc # "none"
    THEN Outcome(v.exc, v.msg, us, db, 0, 0, "none")
    ELSE IF ~v.ok
    THEN Outcome("UnauthorizedError", "Invalid credentials", us, db, 0, 0, "none")
    ELSE IF us[user].is_active = FALSE
    THEN Outcome("UnauthorizedError", "User account is disabled, contact with the administrator", us, db, 0, 0, "none")
    ELSE
    LET us1 == update_last_login(us, user, t)
        gen == generate_raw_refresh_token(n)
        db1 == create_refresh_token(db, gen.jti, user, hash_refresh_token(gen.raw),
                                    refresh_token_expiry_datetime(t))
    IN Issued(Outcome("none", "", us1, db1, gen.raw, gen.jti, user),
              user_access_token(us1, rp, user, t))

\* AuthService.refresh_with_refresh_token, the body of the unit of work
refresh_with_refresh_token(us, rp, db, presented_raw, presented_jti, t, n) ==
    LET token_row == IF presented_jti # NoJti
                     THEN get_refresh_token_by_jti(db, presented_jti)
                     ELSE get_by_token_hash(db, hash_refresh_token(presented_raw))
    IN
    IF token_row = NoRow
    THEN Outcome("DomainError", "Invalid refresh token", us, db, 0, 0, "none")
    ELSE IF db[token_row].revoked \/ db[token_row].expires_at < t
    THEN Outcome("DomainError", "Refresh token invalid or expired", us,
                 revoke_all_refresh_tokens_for_user(db, db[token_row].user_id), 0, 0, "none")
    ELSE IF hash_refresh_token(presented_raw) # db[token_row].hashed_token
    THEN Outcome("DomainError", "Refresh token invalid (hash mismatch)", us,
                 revoke_all_refresh_tokens_for_user(db, db[token_row].user_id), 0, 0, "none")
    ELSE
    LET gen == generate_raw_refresh_token(n)
        db1 == create_refresh_token(db, gen.jti, db[token_row].user_id,
                                    hash_refresh_token(gen.raw),
                                    refresh_token_expiry_datetime(t))
        db2 == mark_refresh_token_replaced(db1, token_row, gen.jti)
        db3 == update_refresh_token_last_used(db2, gen.jti, t)
    IN Issued(Outcome("none", "", us, db3, gen.raw, gen.jti, db[token_row].user_id),
              user_access_token(us, rp, db[token_row].user_id, t))

\* a logout that does not compare the token's owner with the caller
logout_NoOwnerCheck(us, db, user_id, jti) ==
    LET user == read_by_id(us, user_id) IN
    IF user = "none"
    THEN Outcome("NotFoundError", "User not found", us, db, 0, 0, "none")
    ELSE
    LET token == get_refresh_token_by_jti(db, jti) IN
    IF token = NoRow
    THEN Outcome("NotFoundError", "Refresh token not found", us, db, 0, 0, "none")
    ELSE Outcome("none", "", us, revoke_refresh_token(db, jti), 0, 0, user)

\* AuthService.logout, the body of the unit of work
logout(us, db, user_id, jti) ==
    LET user == read_by_id(us, user_id) IN
    IF user = "none"
    THEN Outcome("NotFoundError", "User not found", us, db, 0, 0, "none")
    ELSE
    LET token == get_refresh_token_by_jti(db, jti) IN
    IF token = NoRow
    THEN Outcome("NotFoundError", "Refresh token not found", us, db, 0, 0, "none")
    ELSE IF db[token].user_id # user
    THEN Outcome("DomainError", "Token does not belong to this user", us, db, 0, 0, "none")
    ELSE Outcome("none", "", us, revoke_refresh_token(db, jti), 0, 0, user)

\* AuthService.logout_all_devices, the body of the unit of work
logout_all_devices(us, db, user_id) ==
    LET user == read_by_id(us, user_id) IN
    IF user = "none"
    THEN Outcome("NotFoundError", "User not found", us, db, 0, 0, "none")
    ELSE Outcome("none", "", us, revoke_all_refresh_tokens_for_user(db, user_id), 0, 0, user)

\* an outcome together with the last line the call wrote to the log
Logged(o, line) == o @@ [log |-> line]

\* AuthService.revoke_refresh_token_by_jti, the body of the unit of work
revoke_refresh_token_by_jti(us, db, jti) ==
    LET token == get_refresh_token_by_jti(db, jti) IN
    IF token = NoRow
    THEN Logged(Outcome("none", "", us, db, 0, 0, "none"), "Refresh token given not found")
    ELSE IF db[token].revoked
    THEN Logged(Outcome("none", "", us, db, 0, 0, "none"), "Token given was already revoked")
    ELSE Logged(Outcome("none", "", us, revoke_refresh_token(db, jti), 0, 0, "none"),
                "Refresh token revoked by JTI")

\* a revocation that reports an unknown secret to the caller
revoke_refresh_token_by_raw_NotFound(us, db, raw_token) ==
    LET token == get_by_token_hash(db, hash_refresh_token(raw_token)) IN
    IF token = NoRow
    THEN Logged(Outcome("NotFoundError", "Refresh token not found", us, db, 0, 0, "none"),
                "Refresh token given not found")
    ELSE Logged(Outcome("none", "", us, revoke_refresh_token(db, db[token].jti), 0, 0, "none"),
                "Refresh token revoked by RAW")

\* AuthService.revoke_refresh_token_by_raw, the body of the unit of work
revoke_refresh_token_by_raw(us, db, raw_token) ==
    LET hashed == hash_refresh_token(raw_token)
        token == get_by_token_hash(db, hashed)
    IN
    IF token = NoRow
    THEN Logged(Outcome("none", "", us, db, 0, 0, "none"), "Refresh token given not found")
    ELSE IF db[token].revoked
    THEN Logged(Outcome("none", "", us, db, 0, 0, "none"), "Token given was already revoked")
    ELSE Logged(Outcome("none", "", us, revoke_refresh_token(db, db[token].jti), 0, 0, "none"),
                "Refresh token revoked by RAW")

\* ClientRepository.read_by_clientid
read_by_clientid(cs, clientid) ==
    IF \E k \in DOMAIN cs : cs[k].client_id = clientid
    THEN CHOOSE k \in DOMAIN cs : cs[k].client_id = clientid
    ELSE "none"

\* AuthService.client_credentials, the body of the unit of work
client_credentials(cs, us, db, client_id, client_secret, t) ==
    LET client == read_by_clientid(cs, client_id) IN
    IF client = "none"
    THEN Outcome("UnauthorizedError", "Invalid client credentials", us, db, 0, 0, "none")
    ELSE IF ~cs[client].is_active
    THEN Outcome("UnauthorizedError", "Client account is disabled, contact with the administrator", us, db, 0, 0, "none")
    ELSE
    LET v == verify_password(client_secret, cs[client].hashed_secret) IN
    IF v.exc # "none"
    THEN Outcome(v.exc, v.msg, us, db, 0, 0, "none")
    ELSE IF ~v.ok
    THEN Outcome("UnauthorizedError", "Invalid client credentials", us, db, 0, 0, "none")
    ELSE Issued(Outcome("none", "", us, db, 0, 0, client),
                create_client_access_token(client, client_permissions(cs[client]), t))

(* ------------------------- dependencies/auth.py ----------------------- *)

\* a request that got no principal: the HTTPException that ended it
Refused(status, detail) ==
    [status |-> status, detail |-> detail, kind |-> "none", user |-> None, client |-> None]

\* Principal(kind, token, user, client)
Principal(kind, token, user, client) ==
    [status |-> 200, detail |-> "", kind |-> kind, token |-> token,
     user |-> user, client |-> client]

\* get_current_principal: decode the token, then load the live row of its subject
get_current_principal(token, us, rp, cs, t) ==
    LET d == decode_token(token, t) IN
    IF d.exc = "ExpiredSignatureError" THEN Refused(401, "Token expired")
    ELSE IF d.exc # "none" THEN Refused(401, d.msg)
    ELSE
    LET payload == d.payload IN
    IF payload.type = "" THEN Refused(401, "Malformed token")
    ELSE IF payload.sub = "" THEN Refused(401, "Malformed token")
    ELSE IF payload.type = USER
    THEN IF payload.sub \notin UUIDs
         THEN Refused(401, "User not found or inactive")
         ELSE Principal(USER, payload, get_user_for_auth(us, rp, payload.sub), None)
    ELSE IF payload.type = CLIENT
    THEN IF payload.sub \notin UUIDs
         THEN Refused(401, "Client not found or inactive")
         ELSE Principal(CLIENT, payload, None, get_client_for_auth(cs, payload.sub))
    ELSE Refused(401, "Unknown token type")

\* oauth2_scheme = OAuth2PasswordBearer(tokenUrl): a request without a bearer
\* token in its Authorization header is answered 401 before the dependency runs
oauth2_scheme(authorization) ==
    IF authorization = NoToken THEN Refused(401, "Not authenticated")
    ELSE [status |-> 200, detail |-> "", token |-> authorization]

\* the dependency returned None
NoPrincipal == [status |-> 200, detail |-> "", kind |-> "none", user |-> None, client |-> None]

\* get_current_principal behind oauth2_scheme, as a route depends on it
current_principal(authorization, us, rp, cs, t) ==
    LET scheme == oauth2_scheme(authorization) IN
    IF scheme.status # 200 THEN scheme
    ELSE get_current_principal(scheme.token, us, rp, cs, t)

\* get_current_principal_optional behind oauth2_scheme: None when the token
\* does not decode, None when get_current_principal raises an HTTPException
get_current_principal_optional(authorization, us, rp, cs, t) ==
    LET scheme == oauth2_scheme(authorization) IN
    IF scheme.status # 200 THEN scheme
    ELSE IF decode_token(scheme.token, t).exc # "none" THEN NoPrincipal
    ELSE
    LET principal == get_current_principal(scheme.token, us, rp, cs, t) IN
    IF principal.status # 200 THEN NoPrincipal ELSE principal

(* --------------------------- core/permissions.py ---------------------- *)

\* what the dependency answers: 200 lets the request through
Answer(status, detail) == [status |-> status, detail |-> detail]

\* a checker without the require_password_change gate
checker_NoPasswordGate(principal, permission_name) ==
    IF principal.kind = USER /\ principal.user # None
    THEN LET current_user == principal.user IN
         IF current_user.is_active = FALSE
         THEN Answer(403, "User account is inactive")
         ELSE IF current_user.is_superuser
         THEN Answer(200, "")
         ELSE IF permission_name \notin
                    UNION {current_user.roles[role] : role \in DOMAIN current_user.roles}
         THEN Answer(403, "Access denied")
         ELSE Answer(200, "")
    ELSE IF principal.kind = CLIENT /\ principal.client # None
    THEN LET client == principal.client IN
         IF client.is_active = FALSE
         THEN Answer(403, "Client account is inactive")
         ELSE IF permission_name \notin client.permissions
         THEN Answer(403, "Access denied")
         ELSE Answer(200, "")
    ELSE Answer(401, "Unauthenticated")

\* a checker that trusts the is_superuser claim of the token, not the live row
checker_TokenClaims(principal, permission_name) ==
    IF principal.kind = USER /\ principal.user # None
    THEN LET current_user == principal.user IN
         IF current_user.is_active = FALSE
         THEN Answer(403, "User account is inactive")
         ELSE IF current_user.require_password_change
         THEN Answer(403, "User must change password before proceeding")
         ELSE IF principal.token.is_superuser
         THEN Answer(200, "")
         ELSE IF permission_name \notin
                    UNION {current_user.roles[role] : role \in DOMAIN current_user.roles}
         THEN Answer(403, "Access denied")
         ELSE Answer(200, "")
    ELSE IF principal.kind = CLIENT /\ principal.client # None
    THEN LET client == principal.client IN
         IF client.is_active = FALSE
         THEN Answer(403, "Client account is inactive")
         ELSE IF permission_name \notin client.permissions
         THEN Answer(403, "Access denied")
         ELSE Answer(200, "")
    ELSE Answer(401, "Unauthenticated")

\* requires_permission.checker, given the principal get_current_principal returned
checker(principal, permission_name) ==
    IF principal.kind = USER /\ principal.user # None
    THEN LET current_user == principal.user IN
         IF current_user.is_active = FALSE
         THEN Answer(403, "User account is inactive")
         ELSE IF current_user.require_password_change
         THEN Answer(403, "User must change password before proceeding")
         ELSE IF current_user.is_superuser
         THEN Answer(200, "")
         ELSE IF permission_name \notin
                    UNION {current_user.roles[role] : role \in DOMAIN current_user.roles}
         THEN Answer(403, "Access denied")
         ELSE Answer(200, "")
    ELSE IF principal.kind = CLIENT /\ principal.client # None
    THEN LET client == principal.client IN
         IF client.is_active = FALSE
         THEN Answer(403, "Client account is inactive")
         ELSE IF permission_name \notin client.permissions
         THEN Answer(403, "Access denied")
         ELSE Answer(200, "")
    ELSE Answer(401, "Unauthenticated")

\* requires_permission: FastAPI resolves get_current_principal first, and its
\* HTTPException ends the request before checker runs
requires_permission(token, permission_name, us, rp, cs, t) ==
    LET principal == get_current_principal(token, us, rp, cs, t) IN
    IF principal.status # 200
    THEN Answer(principal.status, principal.detail)
    ELSE checker(principal, permission_name)

(* ------------------- services/user.py, role.py, client.py ------------- *)

\* the result of an administrative call: the exception raised and the table
Admin(exc, table) == [exc |-> exc, table |-> table]

\* UserService.assign_role
assign_role(us, user_id, role_id) ==
    IF user_id \notin DOMAIN us THEN Admin("NotFoundError", us)
    ELSE IF role_id \notin Roles THEN Admin("NotFoundError", us)
    ELSE IF role_id \in us[user_id].roles THEN Admin("EntityAlreadyExists", us)
    ELSE Admin("none", [us EXCEPT ![user_id].roles = @ \cup {role_id}])

\* UserService.remove_role
remove_role(us, user_id, role_id) ==
    IF user_id \notin DOMAIN us THEN Admin("NotFoundError", us)
    ELSE IF role_id \notin Roles THEN Admin("NotFoundError", us)
    ELSE IF role_id \notin us[user_id].roles THEN Admin("NotFoundError", us)
    ELSE Admin("none", [us EXCEPT ![user_id].roles = @ \ {role_id}])

\* UserService.update with a payload that sets is_active or is_superuser
update(us, user_id, field, value) ==
    IF user_id \notin DOMAIN us THEN Admin("NotFoundError", us)
    ELSE IF field = "is_active" THEN Admin("none", [us EXCEPT ![user_id].is_active = value])
    ELSE Admin("none", [us EXCEPT ![user_id].is_superuser = value])

\* UserService.delete
delete(us, user_id) ==
    IF user_id \notin DOMAIN us THEN Admin("NotFoundError", us)
    ELSE Admin("none", [u \in DOMAIN us \ {user_id} |-> us[u]])

\* refresh_tokens.user_id: ForeignKey("users.id", ondelete = "CASCADE")
cascade(db, us) ==
    [j \in {i \in DOMAIN db : db[i].user_id \in DOMAIN us} |-> db[j]]

\* RoleService.add_permission
add_permission(rp, role_id, permission_id) ==
    IF role_id \notin DOMAIN rp THEN Admin("NotFoundError", rp)
    ELSE IF permission_id \notin Perms THEN Admin("NotFoundError", rp)
    ELSE IF permission_id \in rp[role_id] THEN Admin("EntityAlreadyExists", rp)
    ELSE Admin("none", [rp EXCEPT ![role_id] = @ \cup {permission_id}])

\* RoleService.remove_permission
remove_permission(rp, role_id, permission_id) ==
    IF role_id \notin DOMAIN rp THEN Admin("NotFoundError", rp)
    ELSE IF permission_id \notin Perms THEN Admin("NotFoundError", rp)
    ELSE IF permission_id \notin rp[role_id] THEN Admin("EntityAlreadyExists", rp)
    ELSE Admin("none", [rp EXCEPT ![role_id] = @ \ {permission_id}])

\* ClientService.update with a payload that sets is_active or the permissions
client_update(cs, client_id, field, value) ==
    IF client_id \notin DOMAIN cs THEN Admin("NotFoundError", cs)
    ELSE IF field = "is_active" THEN Admin("none", [cs EXCEPT ![client_id].is_active = value])
    ELSE IF ~(value \subseteq Perms) THEN Admin("NotFoundError", cs)
    ELSE Admin("none", [cs EXCEPT ![client_id].permissions = value])

(* --------------------------- api/routes/auth.py ----------------------- *)
(* A refresh value in a cookie, header or body is a string that the route  *)
(* splits at its first "::". It is written as the sequence of its parts:   *)
(* <<>> is no value (or ""), <<r>> is "r", <<r, j>> is "r::j", and a part  *)
(* 0 is the empty part.                                                    *)

\* the status the exception handlers answer for a service exception
status_code(exc) ==
    CASE exc = "none" -> 200
      [] exc = "DomainError" -> 400
      [] exc = "NotFoundError" -> 404
      [] OTHER -> 500

\* what a route answers: its status, and the outcome of its service call
Response(status, o, raw, jti) == [status |-> status, o |-> o, raw |-> raw, jti |-> jti]

\* raw, jti = value.split("::", 1), else raw = value
split(value) ==
    IF Len(value) >= 2 THEN [raw |-> value[1], jti |-> value[2]]
    ELSE IF Len(value) = 1 THEN [raw |-> value[1], jti |-> NoJti]
    ELSE [raw |-> 0, jti |-> NoJti]

\* logout_user: the route POST /auth/logout
logout_user(refresh_cookie, body, principal, us, db) ==
    LET untouched == Logged(Outcome("none", "", us, db, 0, 0, "none"), "")
        refresh_token == IF refresh_cookie # <<>> THEN refresh_cookie[1] # 0
                         ELSE body # <<>>
        parsed == IF refresh_cookie # <<>> THEN split(refresh_cookie) ELSE split(body)
    IN
    IF principal.status # 200
    THEN Response(principal.status, untouched, 0, NoJti)
    ELSE IF ~refresh_token
    THEN Response(400, untouched, 0, NoJti)
    ELSE IF parsed.jti # NoJti
    THEN IF principal # NoPrincipal /\ principal.user # None
         THEN LET o == logout(us, db, principal.user.id, parsed.jti) IN
              Response(IF o.exc = "none" THEN 204 ELSE status_code(o.exc),
                       Logged(o, ""), parsed.raw, parsed.jti)
         ELSE Response(204, untouched, parsed.raw, parsed.jti)
    ELSE IF parsed.raw = 0
    THEN Response(400, untouched, 0, NoJti)
    ELSE Response(204, revoke_refresh_token_by_raw(us, db, parsed.raw), parsed.raw, NoJti)

\* a jti text that uuid.UUID refuses
NotUUID == -1

\* a refresh route that reads the body first and the cookie last
refresh_token_BodyFirst(refresh_cookie, refresh_token_header, refresh_jti, body, us, rp, db, t, n) ==
    LET parsed == IF body # <<>> THEN split(body)
                  ELSE IF refresh_token_header # <<>> THEN split(refresh_token_header)
                  ELSE split(refresh_cookie)
    IN
    IF parsed.raw = 0
    THEN Response(400, Logged(Outcome("none", "", us, db, 0, 0, "none"),
                              "No refresh token provided"), 0, NoJti)
    ELSE LET o == refresh_with_refresh_token(us, rp, db, parsed.raw, parsed.jti, t, n) IN
         Response(status_code(o.exc), Logged(o, ""), parsed.raw, parsed.jti)

\* refresh_token: the route POST /auth/refresh
refresh_token(refresh_cookie, refresh_token_header, refresh_jti, body, us, rp, db, t, n) ==
    LET untouched == Outcome("none", "", us, db, 0, 0, "none")
        parsed == IF refresh_cookie # <<>> THEN split(refresh_cookie)
                  ELSE IF refresh_token_header # <<>>
                  THEN [raw |-> split(refresh_token_header).raw,
                        jti |-> IF refresh_jti # NoJti THEN refresh_jti
                                ELSE split(refresh_token_header).jti]
                  ELSE split(body)
    IN
    IF parsed.raw = 0
    THEN Response(400, Logged(untouched, "No refresh token provided"), 0, NoJti)
    ELSE IF parsed.jti = NotUUID
    THEN Response(400, Logged(untouched, "Invalid jti format"), 0, NoJti)
    ELSE LET o == refresh_with_refresh_token(us, rp, db, parsed.raw, parsed.jti, t, n) IN
         Response(status_code(o.exc), Logged(o, ""), parsed.raw, parsed.jti)

(* ------------------------------ state --------------------------------- *)

NoLast ==
    [op |-> "init", exc |-> "none", msg |-> "", raw |-> 0, jti |-> 0,
     ret_raw |-> 0, ret_jti |-> 0, sub |-> "none", access |-> NoToken,
     token |-> NoToken, perm |-> "", principal |-> Refused(0, ""), status |-> 0,
     detail |-> "", expires_minutes |-> <<>>, payload |-> <<>>, request |-> <<>>]

Last(op, o, raw, jti) ==
    [NoLast EXCEPT !.op = op, !.exc = o.exc, !.msg = o.msg, !.raw = raw, !.jti = jti,
                   !.ret_raw = o.ret_raw, !.ret_jti = o.ret_jti, !.sub = o.sub,
                   !.access = o.access]

User(email, password, active, require_password_change, roles) ==
    [email |-> email, hashed_password |-> hash_password(password),
     is_active |-> active, is_superuser |-> FALSE,
     require_password_change |-> require_password_change, roles |-> roles,
     last_login |-> NoTime]

\* a request that is not inside refresh_with_refresh_token
IdleTx ==
    [pc |-> "idle", raw |-> 0, jti |-> 0, row |-> NoRow, new_raw |-> 0, new_jti |-> NoJti,
     new_expires_at |-> NoTime]

Client(client_id, secret, active, permissions) ==
    [client_id |-> client_id, hashed_secret |-> hash_password(secret), is_active |-> active,
     permissions |-> permissions]

\* the tables after the seed, no call made yet
InitRecords ==
    /\ users = [u \in UserIds |->
                  CASE u = "u1" -> User("a@x", "pw1", TRUE, FALSE, {"R1"})
                    [] u = "u2" -> User("b@x", "pw2", TRUE, TRUE, {"R1", "R2"})
                    [] OTHER -> User("c@x", "pw3", FALSE, FALSE, {"R2"})]
    /\ tokens = <<>>
    /\ now = 0
    /\ nextId = 1
    /\ last = NoLast
    /\ rotated = {}
    /\ clients = [k \in ClientKeys |->
                    IF k = "k1" THEN Client("c1", "s1", TRUE, {"p1"})
                    ELSE Client("c2", "s2", FALSE, {"p1", "p2"})]
    /\ authLog = <<>>
    /\ tx = [p \in Procs |-> IdleTx]
    /\ lock = <<>>
    /\ role_permissions = [r \in Roles |-> IF r = "R1" THEN {"p1", "p2"} ELSE {"p2", "p3"}]

Init ==
    /\ InitRecords
    /\ bearer = NoToken

(* ----------------------- sequential service calls --------------------- *)

\* one call of AuthService.login inside its unit of work
LoginCall(email, password) ==
    LET o == login(users, role_permissions, tokens, email, password, now, nextId) IN
    /\ o.exc = "none" => nextId <= MaxTokens
    /\ users' = aexit(users, o.users, o.exc # "none")
    /\ tokens' = aexit(tokens, o.db, o.exc # "none")
    /\ nextId' = IF o.exc = "none" THEN nextId + 1 ELSE nextId
    /\ last' = Last("login", o, 0, 0)

Login ==
    \E email \in Emails, password \in Passwords :
        /\ LoginCall(email, password)
        /\ UNCHANGED <<role_permissions, bearer, now, rotated, clients, authLog, tx, lock>>

\* one call of AuthService.refresh_with_refresh_token inside its unit of work
RotateCall(raw, jti) ==
    LET o == refresh_with_refresh_token(users, role_permissions, tokens, raw, jti, now, nextId)
    IN
    /\ o.exc = "none" => nextId <= MaxTokens
    /\ tokens' = aexit(tokens, o.db, o.exc # "none")
    /\ nextId' = IF o.exc = "none" THEN nextId + 1 ELSE nextId
    /\ last' = Last("rotate", o, raw, jti)
    /\ rotated' = IF o.exc = "none"
                  THEN rotated \cup {[raw |-> raw, new |-> o.ret_jti]}
                  ELSE rotated

Rotate ==
    \E pres \in Presented(nextId) :
        /\ RotateCall(pres[1], pres[2])
        /\ UNCHANGED <<role_permissions, bearer, users, now, clients, authLog, tx, lock>>

\* the wall clock advances between calls
Tick ==
    /\ now < MaxTime
    /\ now' = now + 1
    /\ last' = [NoLast EXCEPT !.op = "tick"]
    /\ UNCHANGED <<role_permissions, bearer, users, tokens, nextId, rotated, clients, authLog, tx, lock>>

Next == Login \/ Rotate \/ Tick

Spec == Init /\ [][Next]_vars

(* ---------------- concurrent refresh requests, step by step ----------- *)
(* Each request runs refresh_with_refresh_token in its own session, at the  *)
(* database's default isolation level (read committed): a SELECT sees what  *)
(* is committed, rows a session inserted or updated stay invisible to the   *)
(* others until its commit, and an UPDATE waits for the row lock.  The     *)
(* clock stands still while the requests interleave.                       *)

\* the rows another request holds a lock on
LockedByOther(p) == {j \in DOMAIN lock : lock[j] # p}

\* SELECT the row and run the checks on it; a refusal raises at once, so the
\* unit of work rolls back what revoke_all_refresh_tokens_for_user wrote
CBegin(p) ==
    \E pres \in Presented(nextId) :
        LET raw == pres[1]
            jti == pres[2]
            token_row == IF jti # NoJti
                         THEN get_refresh_token_by_jti(tokens, jti)
                         ELSE get_by_token_hash(tokens, hash_refresh_token(raw))
            o == refresh_with_refresh_token(users, role_permissions, tokens, raw, jti, now, nextId)
        IN
        /\ tx[p].pc = "idle"
        /\ IF o.exc # "none"
           THEN /\ token_row # NoRow =>
                     \A j \in LockedByOther(p) : tokens[j].user_id # tokens[token_row].user_id
                /\ tokens' = aexit(tokens, o.db, TRUE)
                /\ last' = Last("rotate", o, raw, jti)
                /\ tx' = tx
           ELSE /\ tokens' = tokens
                /\ last' = [NoLast EXCEPT !.op = "step"]
                /\ tx' = [tx EXCEPT ![p] = [IdleTx EXCEPT !.pc = "insert", !.raw = raw,
                                            !.jti = jti, !.row = token_row]]
        /\ UNCHANGED <<role_permissions, bearer, users, now, nextId, rotated, clients, authLog, lock>>

\* generate the successor and INSERT it (create_refresh_token, flushed)
CInsert(p) ==
    LET gen == generate_raw_refresh_token(nextId) IN
    /\ tx[p].pc = "insert"
    /\ nextId <= MaxTokens
    /\ nextId' = nextId + 1
    /\ tx' = [tx EXCEPT ![p].pc = "mark", ![p].new_raw = gen.raw, ![p].new_jti = gen.jti,
                        ![p].new_expires_at = refresh_token_expiry_datetime(now)]
    /\ last' = [NoLast EXCEPT !.op = "step"]
    /\ UNCHANGED <<role_permissions, bearer, users, tokens, now, rotated, clients, authLog, lock>>

\* UPDATE the old row (mark_refresh_token_replaced): waits for the row lock
CMark(p) ==
    /\ tx[p].pc = "mark"
    /\ tx[p].row \notin LockedByOther(p)
    /\ lock' = (tx[p].row :> p) @@ lock
    /\ tx' = [tx EXCEPT ![p].pc = "commit"]
    /\ last' = [NoLast EXCEPT !.op = "step"]
    /\ UNCHANGED <<role_permissions, bearer, users, tokens, now, nextId, rotated, clients, authLog>>

\* touch last_used_at, return, and commit: the session's writes reach the store
CCommit(p) ==
    LET t == tx[p]
        db1 == create_refresh_token(tokens, t.new_jti, tokens[t.row].user_id,
                                    hash_refresh_token(t.new_raw), t.new_expires_at)
        db2 == mark_refresh_token_replaced(db1, t.row, t.new_jti)
        db3 == update_refresh_token_last_used(db2, t.new_jti, now)
        o == Issued(Outcome("none", "", users, db3, t.new_raw, t.new_jti, tokens[t.row].user_id),
                    user_access_token(users, role_permissions, tokens[t.row].user_id, now))
    IN
    /\ t.pc = "commit"
    /\ tokens' = aexit(tokens, o.db, FALSE)
    /\ lock' = [j \in DOMAIN lock \ {t.row} |-> lock[j]]
    /\ rotated' = rotated \cup {[raw |-> t.raw, new |-> t.new_jti]}
    /\ last' = Last("rotate", o, t.raw, t.jti)
    /\ tx' = [tx EXCEPT ![p] = IdleTx]
    /\ UNCHANGED <<role_permissions, bearer, users, now, nextId, clients, authLog>>

CRotate == \E p \in Procs : CBegin(p) \/ CInsert(p) \/ CMark(p) \/ CCommit(p)

NextConc == Login \/ CRotate

SpecConc == Init /\ [][NextConc]_vars

(* ------------------- authentication calls, observed ------------------- *)

\* what a caller sees of one authentication call
Seen(op, id, secret, o) ==
    [op |-> op, id |-> id, secret |-> secret, exc |-> o.exc, msg |-> o.msg]

\* the caller keeps the two most recent answers
Observe(log, e) ==
    IF Len(log) < 2 THEN Append(log, e) ELSE <<log[2], e>>

AuthnLogin ==
    \E email \in Emails, password \in Passwords :
        /\ LoginCall(email, password)
        /\ authLog' = Observe(authLog,
               Seen("login", email, password,
                    login(users, role_permissions, tokens, email, password, now, nextId)))
        /\ UNCHANGED <<role_permissions, bearer, now, rotated, clients, tx, lock>>

\* one call of AuthService.client_credentials inside its unit of work
AuthnClientCredentials ==
    \E client_id \in ClientIds, client_secret \in Secrets :
        LET o == client_credentials(clients, users, tokens, client_id, client_secret, now) IN
        /\ last' = Last("client_credentials", o, 0, 0)
        /\ authLog' = Observe(authLog, Seen("client_credentials", client_id, client_secret, o))
        /\ UNCHANGED <<role_permissions, bearer, users, tokens, now, nextId, rotated, clients, tx, lock>>

NextAuthn == AuthnLogin \/ AuthnClientCredentials

SpecAuthn == Init /\ [][NextAuthn]_vars

(* ------------- permission checks while the records change ------------- *)
(* A caller keeps the access token of its latest successful login, refresh  *)
(* or client credentials call and presents it to a protected route, while   *)
(* an administrator changes roles, permissions and accounts in between.     *)

\* the credentials of the three users
Credentials == {<<"a@x", "pw1">>, <<"b@x", "pw2">>, <<"c@x", "pw3">>}
\* the credentials of the two clients
ClientCredentials == {<<"c1", "s1">>, <<"c2", "s2">>}
\* the permission lists an administrator gives a client
ClientGrants == {{}, {"p1"}}

\* the accounts and the role the administrator works on
ManagedUsers == {"u1"}
ManagedClients == {"k1"}
ManagedRoles == {"R1"}

\* the caller's token after a call: the one just returned, else the one it had
Kept(access) == IF access # NoToken THEN access ELSE bearer

AzLogin ==
    \E cred \in Credentials :
        /\ LoginCall(cred[1], cred[2])
        /\ bearer' = Kept(last'.access)
        /\ UNCHANGED <<role_permissions, now, rotated, clients, authLog, tx, lock>>

AzClientCredentials ==
    \E cred \in ClientCredentials :
        LET o == client_credentials(clients, users, tokens, cred[1], cred[2], now) IN
        /\ last' = Last("client_credentials", o, 0, 0)
        /\ bearer' = Kept(o.access)
        /\ UNCHANGED <<role_permissions, users, tokens, now, nextId, rotated,
                       clients, authLog, tx, lock>>

\* a request to a route behind requires_permission(permission_name)
Authorize ==
    \E permission_name \in Perms :
        LET principal == get_current_principal(bearer, users, role_permissions, clients, now)
            answer == requires_permission(bearer, permission_name, users, role_permissions,
                                          clients, now)
        IN
        /\ bearer # NoToken
        /\ last' = [NoLast EXCEPT !.op = "authorize", !.token = bearer,
                                  !.perm = permission_name, !.principal = principal,
                                  !.status = answer.status, !.detail = answer.detail]
        /\ UNCHANGED <<role_permissions, bearer, users, tokens, now, nextId, rotated,
                       clients, authLog, tx, lock>>

\* an administrative call that goes through (a refused one changes nothing)
Changed(op, o) ==
    /\ o.exc = "none"
    /\ last' = [NoLast EXCEPT !.op = op]

AssignRole ==
    \E user_id \in ManagedUsers, role_id \in Roles :
        LET o == assign_role(users, user_id, role_id) IN
        /\ Changed("assign_role", o)
        /\ users' = o.table
        /\ UNCHANGED <<role_permissions, bearer, tokens, now, nextId, rotated, clients,
                       authLog, tx, lock>>

RemoveRole ==
    \E user_id \in ManagedUsers, role_id \in Roles :
        LET o == remove_role(users, user_id, role_id) IN
        /\ Changed("remove_role", o)
        /\ users' = o.table
        /\ UNCHANGED <<role_permissions, bearer, tokens, now, nextId, rotated, clients,
                       authLog, tx, lock>>

UpdateUser ==
    \E user_id \in ManagedUsers, field \in {"is_active", "is_superuser"}, value \in BOOLEAN :
        LET o == update(users, user_id, field, value) IN
        /\ Changed("update", o)
        /\ o.table # users
        /\ users' = o.table
        /\ UNCHANGED <<role_permissions, bearer, tokens, now, nextId, rotated, clients,
                       authLog, tx, lock>>

DeleteUser ==
    \E user_id \in ManagedUsers :
        LET o == delete(users, user_id) IN
        /\ Changed("delete", o)
        /\ users' = o.table
        /\ tokens' = cascade(tokens, o.table)
        /\ UNCHANGED <<role_permissions, bearer, now, nextId, rotated, clients,
                       authLog, tx, lock>>

AddPermission ==
    \E role_id \in ManagedRoles, permission_id \in Perms :
        LET o == add_permission(role_permissions, role_id, permission_id) IN
        /\ Changed("add_permission", o)
        /\ role_permissions' = o.table
        /\ UNCHANGED <<bearer, users, tokens, now, nextId, rotated, clients, authLog, tx, lock>>

RemovePermission ==
    \E role_id \in ManagedRoles, permission_id \in Perms :
        LET o == remove_permission(role_permissions, role_id, permission_id) IN
        /\ Changed("remove_permission", o)
        /\ role_permissions' = o.table
        /\ UNCHANGED <<bearer, users, tokens, now, nextId, rotated, clients, authLog, tx, lock>>

UpdateClient ==
    \E client_id \in ManagedClients :
        \E change \in {<<"is_active", b>> : b \in BOOLEAN}
                        \cup {<<"permissions", g>> : g \in ClientGrants} :
            LET o == client_update(clients, client_id, change[1], change[2]) IN
            /\ Changed("client_update", o)
            /\ o.table # clients
            /\ clients' = o.table
            /\ UNCHANGED <<role_permissions, bearer, users, tokens, now, nextId, rotated,
                           authLog, tx, lock>>

NextAuthz ==
    \/ AzLogin \/ AzClientCredentials \/ Authorize
    \/ AssignRole \/ RemoveRole \/ UpdateUser \/ UpdateClient

SpecAuthz == Init /\ [][NextAuthz]_vars

(* ----------------------- sessions that are ended ---------------------- *)

\* the owner ids a caller may give: the users, and an id no user has
OwnerIds == UserIds \cup {"u9"}

\* one call of AuthService.logout inside its unit of work; last.sub is the
\* owner id the call was given
Logout ==
    \E user_id \in OwnerIds, jti \in 1..nextId :
        LET o == logout(users, tokens, user_id, jti) IN
        /\ tokens' = aexit(tokens, o.db, o.exc # "none")
        /\ last' = [Last("logout", o, 0, jti) EXCEPT !.sub = user_id]
        /\ UNCHANGED <<role_permissions, bearer, users, now, nextId, rotated, clients,
                       authLog, tx, lock>>

\* one call of AuthService.logout_all_devices inside its unit of work
LogoutAll ==
    \E user_id \in OwnerIds :
        LET o == logout_all_devices(users, tokens, user_id) IN
        /\ tokens' = aexit(tokens, o.db, o.exc # "none")
        /\ last' = [Last("logout_all", o, 0, 0) EXCEPT !.sub = user_id]
        /\ UNCHANGED <<role_permissions, bearer, users, now, nextId, rotated, clients,
                       authLog, tx, lock>>

NextLogout == Login \/ Rotate \/ Logout \/ LogoutAll

SpecLogout == Init /\ [][NextLogout]_vars

(* ----------------------- the logout endpoint -------------------------- *)
(* A caller logs in, keeps the access token, and ends sessions through the *)
(* route and through the service calls the route is built on.              *)

\* the refresh values a request may carry: none, a secret alone, a secret
\* with its own jti, and a jti without its secret
RefreshValues(n) ==
    {<<>>} \cup {<<raw>> : raw \in 1..n}
        \cup {<<jti, jti>> : jti \in 1..n}
        \cup {<<0, jti>> : jti \in 1..n}

\* cookie and body of a logout request: one of the two, or the cookie of the
\* first session together with a body
LogoutRequests(n) ==
    {<<cookie, <<>>>> : cookie \in RefreshValues(n)}
        \cup {<<<<>>, body>> : body \in RefreshValues(n)}
        \cup {<<<<1, 1>>, body>> : body \in {<<raw>> : raw \in 1..n}}

\* the Authorization header of a request: none, the access token the caller
\* holds, or that token signed by somebody else
Authorizations == {NoToken, bearer, [bearer EXCEPT !.key = "other"]}

\* one call of AuthService.revoke_refresh_token_by_raw inside its unit of work
RevokeByRaw ==
    \E raw \in PresentedRaw(nextId) :
        LET o == revoke_refresh_token_by_raw(users, tokens, raw) IN
        /\ tokens' = aexit(tokens, o.db, o.exc # "none")
        /\ last' = [Last("revoke_by_raw", o, raw, 0) EXCEPT !.detail = o.log]
        /\ UNCHANGED <<role_permissions, bearer, users, now, nextId, rotated, clients,
                       authLog, tx, lock>>

\* one call of AuthService.revoke_refresh_token_by_jti inside its unit of work
RevokeByJti ==
    \E jti \in 1..nextId :
        LET o == revoke_refresh_token_by_jti(users, tokens, jti) IN
        /\ tokens' = aexit(tokens, o.db, o.exc # "none")
        /\ last' = [Last("revoke_by_jti", o, 0, jti) EXCEPT !.detail = o.log]
        /\ UNCHANGED <<role_permissions, bearer, users, now, nextId, rotated, clients,
                       authLog, tx, lock>>

\* one request POST /auth/logout
LogoutUser ==
    \E request \in LogoutRequests(nextId), authorization \in Authorizations :
        LET principal == get_current_principal_optional(authorization, users,
                                                        role_permissions, clients, now)
            response == logout_user(request[1], request[2], principal, users, tokens)
        IN
        /\ tokens' = aexit(tokens, response.o.db, response.o.exc # "none")
        /\ last' = [Last("logout_user", response.o, response.raw, response.jti)
                        EXCEPT !.status = response.status, !.token = authorization,
                               !.principal = principal, !.detail = response.o.log]
        /\ UNCHANGED <<role_permissions, bearer, users, now, nextId, rotated, clients,
                       authLog, tx, lock>>

\* a login and a rotation of the caller, MaxSessions records at most
EpLogin ==
    /\ AzLogin
    /\ last'.exc = "none" => nextId <= MaxSessions

EpRotate ==
    /\ Rotate
    /\ last'.exc = "none" => nextId <= MaxSessions

NextEndpoint ==
    \/ EpLogin \/ EpRotate \/ Logout \/ LogoutAll
    \/ RevokeByRaw \/ RevokeByJti \/ LogoutUser

SpecEndpoint == Init /\ [][NextEndpoint]_vars

(* ------------------ any bearer token, resolved ------------------------ *)
(* get_current_principal is given every kind of token a request can carry: *)
(* signed with the deployment's key or another, with or without a type,    *)
(* for a subject that has a row, had one, never had one, or is no uuid.    *)

PresentedSubjects == {"u1", "u3", "u9", "k1", "", "not-a-uuid"}
PresentedTypes == {USER, CLIENT, "service", ""}

PresentedClaims ==
    {[sub |-> sub, type |-> type, iat |-> 0, exp |-> exp] :
        sub \in PresentedSubjects, type \in PresentedTypes, exp \in {0, AccessTTL}}
    \cup {[sub |-> sub, iat |-> 0, exp |-> exp] :
             sub \in PresentedSubjects, exp \in {0, AccessTTL}}

PresentedTokens == {[key |-> key, claims |-> claims] :
                        key \in SigningKeys, claims \in PresentedClaims}

InitResolve ==
    /\ InitRecords
    /\ bearer \in PresentedTokens

\* a request to a route that depends on get_current_principal
Resolve ==
    LET principal == get_current_principal(bearer, users, role_permissions, clients, now) IN
    /\ last' = [NoLast EXCEPT !.op = "resolve", !.token = bearer, !.principal = principal,
                              !.status = principal.status, !.detail = principal.detail]
    /\ UNCHANGED <<role_permissions, bearer, users, tokens, now, nextId, rotated,
                   clients, authLog, tx, lock>>

NextResolve == Resolve \/ DeleteUser \/ Tick

SpecResolve == InitResolve /\ [][NextResolve]_vars

(* ----------------------- the refresh endpoint ------------------------- *)
(* A caller with up to MaxSessions sessions sends refresh requests that    *)
(* carry refresh values in any of the cookie, the headers and the body.    *)

\* the requests: a cookie for the first session (its secret, secret::jti, or
\* ::jti), a Refresh-Token header for the second, a Refresh-JTI header, and a
\* body for either, each of them present or not
RefreshRequests ==
    [cookie : {<<>>, <<1>>, <<1, 1>>, <<0, 1>>},
     header : {<<>>, <<2>>, <<2, 2>>},
     refresh_jti : {NoJti, 1, NotUUID},
     body : {<<>>, <<1>>, <<2, 2>>}]

\* one request POST /auth/refresh
Refresh ==
    \E request \in RefreshRequests :
        LET response == refresh_token(request.cookie, request.header, request.refresh_jti,
                                      request.body, users, role_permissions, tokens, now,
                                      nextId)
            o == response.o
            called == o.log = ""
        IN
        /\ (called /\ o.exc = "none") => nextId <= MaxSessions
        /\ tokens' = aexit(tokens, o.db, o.exc # "none")
        /\ nextId' = IF called /\ o.exc = "none" THEN nextId + 1 ELSE nextId
        /\ rotated' = IF called /\ o.exc = "none"
                      THEN rotated \cup {[raw |-> response.raw, new |-> o.ret_jti]}
                      ELSE rotated
        /\ last' = [Last("refresh", o, response.raw, response.jti)
                        EXCEPT !.status = response.status, !.detail = o.log,
                               !.request = request]
        /\ UNCHANGED <<role_permissions, bearer, users, now, clients, authLog, tx, lock>>

NextRefresh == EpLogin \/ Refresh

SpecRefresh == Init /\ [][NextRefresh]_vars

(* ------------- sessions of an account that is deactivated ------------- *)
(* A user logs in and rotates while an administrator sets and clears the   *)
(* is_active flag of the account.                                          *)

NextDeactivate == EpLogin \/ EpRotate \/ UpdateUser

SpecDeactivate == Init /\ [][NextDeactivate]_vars

(* ---------------- any request, resolved optionally -------------------- *)

\* a request with any of the bearer tokens, or with no Authorization header
InitOptional ==
    /\ InitRecords
    /\ bearer \in PresentedTokens \cup {NoToken}

\* a request to a route that depends on get_current_principal_optional
ResolveOptional ==
    LET principal == get_current_principal_optional(bearer, users, role_permissions,
                                                    clients, now)
    IN
    /\ last' = [NoLast EXCEPT !.op = "resolve_optional", !.token = bearer,
                              !.principal = principal, !.status = principal.status,
                              !.detail = principal.detail]
    /\ UNCHANGED <<role_permissions, bearer, users, tokens, now, nextId, rotated,
                   clients, authLog, tx, lock>>

NextOptional == ResolveOptional \/ DeleteUser \/ Tick

SpecOptional == InitOptional /\ [][NextOptional]_vars

(* ------------------------- the token codec ---------------------------- *)
(* Any claim set is encoded with any expires_minutes, and the token that   *)
(* was issued last is decoded while the clock runs.                        *)

\* the claim sets a caller encodes
ClaimSets ==
    [sub : {"u1"}, type : {USER, CLIENT}, permissions : {{}, {"p1", "p2"}},
     is_superuser : BOOLEAN, require_password_change : BOOLEAN]

\* the expires_minutes a caller passes: None, and -1 to AccessTTL + 1
Minutes == {<<>>} \cup {<<m>> : m \in -1..(AccessTTL + 1)}

Encode ==
    \E payload_extra \in ClaimSets, expires_minutes \in Minutes :
        LET pair == _create_access_token(payload_extra, expires_minutes, now, nextId) IN
        /\ nextId <= MaxTokens
        /\ bearer' = IF pair.exc = "none" THEN pair.access_token ELSE bearer
        /\ nextId' = nextId + 1
        /\ last' = [NoLast EXCEPT !.op = "encode", !.exc = pair.exc, !.jti = pair.jti,
                                  !.token = pair.access_token,
                                  !.expires_minutes = expires_minutes,
                                  !.payload = payload_extra]
        /\ UNCHANGED <<role_permissions, users, tokens, now, rotated, clients, authLog,
                       tx, lock>>

Decode ==
    LET d == decode_token(bearer, now) IN
    /\ bearer # NoToken
    /\ last' = [NoLast EXCEPT !.op = "decode", !.exc = d.exc, !.msg = d.msg,
                              !.token = bearer,
                              !.payload = IF d.exc = "none" THEN d.payload ELSE <<>>]
    /\ UNCHANGED <<role_permissions, bearer, users, tokens, now, nextId, rotated,
                   clients, authLog, tx, lock>>

NextCodec == Encode \/ Decode \/ Tick

SpecCodec == Init /\ [][NextCodec]_vars

(* -------------- tokens issued while roles and permissions change ------ *)

NextIssue ==
    \/ Login \/ Rotate
    \/ AssignRole \/ RemoveRole \/ AddPermission \/ RemovePermission

SpecIssue == Init /\ [][NextIssue]_vars

(* ------------------------------ claims -------------------------------- *)

\* the records whose stored hash is the hash of a raw secret
RowsOf(db, raw) == {j \in DOMAIN db : db[j].hashed_token = hash_refresh_token(raw)}

\* the record a Rotate call resolves: by token_id when one is given, else by hash
Resolved(db, raw, jti) ==
    IF jti # NoJti THEN {j \in DOMAIN db : j = jti} ELSE RowsOf(db, raw)

\* C1: sequential single-use rotation. For every refresh token T, a Rotate
\* presenting T's secret (with T's token_id or with none) succeeds when T is
\* neither revoked nor expired, no secret is ever rotated twice, and once a
\* rotation of T has succeeded every later Rotate presenting the same secret
\* fails Invalid and changes nothing, also before T expires.
C1_SingleUseRotation ==
    /\ [](\A r1 \in rotated, r2 \in rotated : r1.raw = r2.raw => r1 = r2)
    /\ [][\A T \in DOMAIN tokens :
            (/\ last'.op = "rotate"
             /\ tokens[T].hashed_token = hash_refresh_token(last'.raw)
             /\ last'.jti \in {NoJti, T})
            => /\ (\E r \in rotated : r.raw = last'.raw)
                    => (last'.exc = "DomainError" /\ tokens' = tokens /\ rotated' = rotated)
               /\ (~tokens[T].revoked /\ now < tokens[T].expires_at)
                    => (last'.exc = "none" /\ tokens'[T].revoked)]_vars

\* C1 witness: a token rotated earlier is presented again before its expiry and refused
C1_Witness ==
    /\ last.op = "rotate"
    /\ last.exc = "DomainError"
    /\ \E r \in rotated, T \in DOMAIN tokens :
          /\ r.raw = last.raw
          /\ tokens[T].hashed_token = hash_refresh_token(last.raw)
          /\ last.jti \in {NoJti, T}
          /\ now < tokens[T].expires_at

\* C2: blast-radius revocation on reuse. Owner U holds tokens A and B, A is
\* rotated into A', and A's secret is presented again and refused: when that
\* call has returned, A' and B are revoked in the committed store.
C2_BlastRadius ==
    \A A \in DOMAIN tokens, B \in DOMAIN tokens, A2 \in DOMAIN tokens :
        (/\ last.op = "rotate"
         /\ last.exc = "DomainError"
         /\ tokens[A].hashed_token = hash_refresh_token(last.raw)
         /\ last.jti \in {NoJti, A}
         /\ [raw |-> last.raw, new |-> A2] \in rotated
         /\ B \notin {A, A2}
         /\ tokens[B].user_id = tokens[A].user_id)
        => (tokens[A2].revoked /\ tokens[B].revoked)

\* C4: durable security response. A Rotate that resolves a non-revoked record
\* and fails because the record is expired or the presented secret's hash
\* differs leaves every refresh token of the record's owner revoked in the store.
C4_DurableSecurityResponse ==
    [][\A R \in Resolved(tokens, last'.raw, last'.jti) :
          (/\ last'.op = "rotate"
           /\ last'.exc # "none"
           /\ ~tokens[R].revoked
           /\ \/ tokens[R].expires_at < now
              \/ tokens[R].hashed_token # hash_refresh_token(last'.raw))
          => \A j \in DOMAIN tokens' :
                tokens'[j].user_id = tokens[R].user_id => tokens'[j].revoked]_vars

\* C5: Rotate never succeeds on a record with now >= expires_at; at the
\* instant now = expires_at the correct secret is refused.
C5_NoRotationAtExpiry ==
    (last.op = "rotate" /\ last.exc = "none")
        => \A T \in RowsOf(tokens, last.raw) : now < tokens[T].expires_at

\* C6: a successful Rotate of record R creates exactly one record N with a
\* fresh token_id, R's owner and revoked = false; marks R revoked and replaced
\* by N; sets last_used_at on N and leaves it alone on R; and returns N's raw
\* secret and token_id.
C6_RotateEffect ==
    [][(last'.op = "rotate" /\ last'.exc = "none")
        => \E R \in RowsOf(tokens, last'.raw) :
           \E N \in DOMAIN tokens' :
              /\ DOMAIN tokens' = DOMAIN tokens \cup {N}
              /\ N \notin DOMAIN tokens
              /\ N # R
              /\ tokens'[N].jti = N
              /\ tokens'[N].user_id = tokens[R].user_id
              /\ tokens'[N].revoked = FALSE
              /\ tokens'[N].replaced_by = NoJti
              /\ tokens'[N].last_used_at = now
              /\ tokens'[N].hashed_token = hash_refresh_token(last'.ret_raw)
              /\ last'.ret_jti = N
              /\ tokens'[R] = [tokens[R] EXCEPT !.revoked = TRUE, !.replaced_by = N]
              /\ \A j \in DOMAIN tokens \ {R} : tokens'[j] = tokens[j]]_vars

\* C6 witness: a record that was itself produced by a rotation has been rotated
C6_Witness ==
    /\ last.op = "rotate"
    /\ last.exc = "none"
    /\ \E R \in RowsOf(tokens, last.raw) :
          /\ tokens[R].replaced_by = last.ret_jti
          /\ tokens[R].last_used_at # NoTime
          /\ tokens[R].last_used_at # tokens[last.ret_jti].last_used_at

\* C7: a Rotate whose token_id (or, without a token_id, whose secret's hash)
\* matches no stored record fails Invalid and changes no record of any owner.
C7_AbsentRecord ==
    [][(last'.op = "rotate" /\ Resolved(tokens, last'.raw, last'.jti) = {})
        => (last'.exc = "DomainError" /\ tokens' = tokens /\ users' = users)]_vars

\* C7 witness: records exist and a Rotate matching none of them was refused
C7_Witness ==
    /\ last.op = "rotate"
    /\ last.exc = "DomainError"
    /\ Resolved(tokens, last.raw, last.jti) = {}
    /\ last.jti # NoJti
    /\ RowsOf(tokens, last.raw) # {}

\* C9: identifier-enumeration resistance. For every secret that does not
\* verify, the empty secret included, Login with a non-existent identifier and
\* Login with an existing identifier fail with the same error kind,
\* Unauthorized, and the same message.
C9_LoginEnumeration ==
    \A i \in DOMAIN authLog, j \in DOMAIN authLog :
        (/\ authLog[i].op = "login"
         /\ authLog[j].op = "login"
         /\ authLog[i].secret = authLog[j].secret
         /\ \A u \in DOMAIN users : users[u].email # authLog[i].id
         /\ \E u \in DOMAIN users :
               /\ users[u].email = authLog[j].id
               /\ users[u].hashed_password # hash_password(authLog[j].secret))
        => /\ authLog[i].exc = "UnauthorizedError"
           /\ authLog[j].exc = "UnauthorizedError"
           /\ authLog[i].msg = authLog[j].msg

\* the three refusals of ClientCredentials the claim names
ClientRefusal(e) ==
    /\ e.op = "client_credentials"
    /\ \/ \A k \in DOMAIN clients : clients[k].client_id # e.id
       \/ \E k \in DOMAIN clients :
             /\ clients[k].client_id = e.id
             /\ \/ ~clients[k].is_active
                \/ clients[k].hashed_secret # hash_password(e.secret)

\* C10: ClientCredentials answers an unknown client_id, an inactive client and
\* a secret mismatch with one identical Unauthorized failure, kind and message.
C10_ClientEnumeration ==
    \A i \in DOMAIN authLog, j \in DOMAIN authLog :
        (ClientRefusal(authLog[i]) /\ ClientRefusal(authLog[j]))
        => /\ authLog[i].exc = "UnauthorizedError"
           /\ authLog[i].exc = authLog[j].exc
           /\ authLog[i].msg = authLog[j].msg

\* C3: under every interleaving of two concurrent Rotate calls presenting the
\* same valid refresh secret, each in its own unit of work and without any
\* in-process lock, at most one call succeeds: at most one successor record
\* is produced for that secret.
C3_ConcurrentSingleUse ==
    \A raw \in PresentedRaw(nextId) : Cardinality({r \in rotated : r.raw = raw}) <= 1

\* C8: the rotation history is a linked list. For every record X at most one
\* record has replaced_by = X.token_id, every record with replaced_by set is
\* revoked, and every record created by a Rotate has exactly one predecessor
\* pointing to it.
C8_LinkedList ==
    /\ \A X \in DOMAIN tokens :
          Cardinality({j \in DOMAIN tokens : tokens[j].replaced_by = X}) <= 1
    /\ \A j \in DOMAIN tokens : tokens[j].replaced_by # NoJti => tokens[j].revoked
    /\ \A r \in rotated :
          Cardinality({j \in DOMAIN tokens : tokens[j].replaced_by = r.new}) = 1

\* the permission names the roles of a live user carry right now
LivePermissions(u) == {p \in Perms : \E r \in users[u].roles : p \in role_permissions[r]}

\* the same token carrying other permission and superuser claims
OtherClaims(token) ==
    [token EXCEPT !.claims.permissions = Perms \ @, !.claims.is_superuser = ~@]

\* C11: a permission check is decided by the live record at request time and
\* never by the claims of the presented access token. With a token issued
\* earlier and still valid, the check denies when the user is inactive now or
\* when the user's roles no longer carry the permission (whatever the token's
\* permission and superuser claims say), it allows a permission the roles
\* carry now although the token does not list it, and a token of the same
\* subject with different claims gets the same answer.
C11_LiveAuthorization ==
    (last.op = "authorize" /\ last.token.claims.type = USER
        /\ last.token.claims.sub \in DOMAIN users)
    => LET u == last.token.claims.sub IN
       /\ ~users[u].is_active => last.status = 403
       /\ (last.perm \notin LivePermissions(u) /\ ~users[u].is_superuser)
            => last.status = 403
       /\ (users[u].is_active /\ ~users[u].require_password_change
             /\ last.perm \in LivePermissions(u)) => last.status = 200
       /\ requires_permission(OtherClaims(last.token), last.perm, users, role_permissions,
                              clients, now).status = last.status

\* C11 witness: a permission the token still lists was taken from the user
\* after the token was issued, and the check denies it
C11_Witness ==
    /\ last.op = "authorize"
    /\ last.token.claims.type = USER
    /\ last.perm \in last.token.claims.permissions
    /\ last.token.claims.sub \in DOMAIN users
    /\ users[last.token.claims.sub].is_active
    /\ ~users[last.token.claims.sub].require_password_change
    /\ last.status = 403
    /\ last.detail = "Access denied"

C13_SuperuserBypass ==
    (last.op = "authorize" /\ last.principal.kind = USER
        /\ last.principal.user # None /\ last.principal.user.is_superuser)
    => last.status = 200

\* C14: for a user principal that is not superuser the check denies every
\* permission when the live user is inactive or must change the password,
\* also one its roles carry, and otherwise allows exactly the permissions of
\* its roles; for a client principal it denies when the client is inactive
\* and otherwise allows exactly the client's own permissions.
C14_Gates ==
    /\ (last.op = "authorize" /\ last.principal.kind = USER
            /\ last.principal.user # None /\ ~last.principal.user.is_superuser)
        => LET u == last.principal.user.id IN
           IF ~users[u].is_active \/ users[u].require_password_change
           THEN last.status = 403
           ELSE (last.status = 200) = (last.perm \in LivePermissions(u))
    /\ (last.op = "authorize" /\ last.principal.kind = CLIENT
            /\ last.principal.client # None)
        => LET k == last.principal.client.id IN
           IF ~clients[k].is_active
           THEN last.status = 403
           ELSE (last.status = 200) = (last.perm \in clients[k].permissions)

\* C14 witness: a user who must change the password is denied a permission
\* that the user's roles carry
C14_Witness ==
    /\ last.op = "authorize"
    /\ last.principal.kind = USER
    /\ last.principal.user # None
    /\ ~last.principal.user.is_superuser
    /\ users[last.principal.user.id].is_active
    /\ users[last.principal.user.id].require_password_change
    /\ last.perm \in LivePermissions(last.principal.user.id)
    /\ last.status = 403

\* C15: the effective permission set of a user is exactly the union of the
\* permission names of the user's roles: {p1,p2,p3} for roles R1 = {p1,p2} and
\* R2 = {p2,p3}, and empty without roles; it is what a login puts in the
\* token. The set of a client is exactly the client's own permission names.
C15_PermissionUnion ==
    /\ \A u \in DOMAIN users :
          LET user == get_user_for_auth(users, role_permissions, u) IN
          /\ user_permissions(user) = LivePermissions(u)
          /\ users[u].roles = {} => user_permissions(user) = {}
          /\ (users[u].roles = {"R1", "R2"} /\ role_permissions["R1"] = {"p1", "p2"}
                /\ role_permissions["R2"] = {"p2", "p3"})
               => user_permissions(user) = {"p1", "p2", "p3"}
    /\ (last.op = "login" /\ last.exc = "none")
          => last.access.claims.permissions = LivePermissions(last.sub)
    /\ \A k \in DOMAIN clients, g \in SUBSET Perms :
          client_permissions([clients[k] EXCEPT !.permissions = g]) = g

\* C15 witness: a user with the roles R1 = {p1,p2} and R2 = {p2,p3} logs in
\* and the token carries {p1,p2,p3}
C15_Witness ==
    /\ last.op = "login"
    /\ last.exc = "none"
    /\ users[last.sub].roles = {"R1", "R2"}
    /\ role_permissions["R1"] = {"p1", "p2"}
    /\ role_permissions["R2"] = {"p2", "p3"}
    /\ last.access.claims.permissions = {"p1", "p2", "p3"}

\* C16: resolving a validly signed, unexpired token whose subject matches no
\* live user (type user) or no live client (type client) fails Unauthorized:
\* a principal that get_current_principal returns has its user or client record.
C16_NoAbsentRecord ==
    (last.op = "resolve" /\ last.status = 200)
    => /\ last.principal.kind = USER => last.principal.user # None
       /\ last.principal.kind = CLIENT => last.principal.client # None

C18_LogoutRefusals ==
    [][last'.op = "logout"
        => LET owner == last'.sub
               jti == last'.jti
           IN
           /\ (owner \notin DOMAIN users \/ jti \notin DOMAIN tokens)
                => (last'.exc = "NotFoundError" /\ tokens' = tokens /\ users' = users)
           /\ (owner \in DOMAIN users /\ jti \in DOMAIN tokens
                 /\ tokens[jti].user_id # owner)
                => (/\ last'.exc = "DomainError"
                    /\ last'.msg = "Token does not belong to this user"
                    /\ tokens' = tokens
                    /\ users' = users)]_vars

\* C18 witness: a logout naming a live record of another owner was refused
C18_Witness ==
    /\ last.op = "logout"
    /\ last.exc = "DomainError"
    /\ last.sub \in DOMAIN users
    /\ last.jti \in DOMAIN tokens
    /\ tokens[last.jti].user_id # last.sub
    /\ ~tokens[last.jti].revoked

\* C19: Logout is idempotent. Logout(owner, token_id) on a record of that
\* owner succeeds whether or not the record is revoked already; afterwards
\* the record is revoked and nothing else differs, so on a revoked record
\* (a second Logout, or a rotated record) the store stays as it is.
C19_LogoutIdempotent ==
    [][(last'.op = "logout" /\ last'.sub \in DOMAIN users /\ last'.jti \in DOMAIN tokens
          /\ tokens[last'.jti].user_id = last'.sub)
        => /\ last'.exc = "none"
           /\ tokens' = [tokens EXCEPT ![last'.jti].revoked = TRUE]
           /\ tokens[last'.jti].revoked => tokens' = tokens
           /\ logout(users', tokens', last'.sub, last'.jti).exc = "none"
           /\ logout(users', tokens', last'.sub, last'.jti).db = tokens'
           /\ users' = users]_vars

\* C19 witness: a logout succeeded on a record that a rotation had revoked before
C19_Witness ==
    /\ last.op = "logout"
    /\ last.exc = "none"
    /\ tokens[last.jti].replaced_by # NoJti
    /\ tokens[last.jti].revoked

\* C20: LogoutAll(owner) fails NotFound and changes nothing when the owner
\* does not exist; otherwise every record of the owner is revoked afterwards,
\* no record of another owner changes and no field but revoked changes.
C20_LogoutAllFrame ==
    [][last'.op = "logout_all"
        => IF last'.sub \notin DOMAIN users
           THEN last'.exc = "NotFoundError" /\ tokens' = tokens /\ users' = users
           ELSE /\ last'.exc = "none"
                /\ users' = users
                /\ DOMAIN tokens' = DOMAIN tokens
                /\ \A j \in DOMAIN tokens :
                      IF tokens[j].user_id = last'.sub
                      THEN tokens'[j] = [tokens[j] EXCEPT !.revoked = TRUE]
                      ELSE tokens'[j] = tokens[j]]_vars

\* C20 witness: after a LogoutAll the owner's records are revoked and a
\* record of another owner is still active
C20_Witness ==
    /\ last.op = "logout_all"
    /\ last.exc = "none"
    /\ \E j \in DOMAIN tokens : tokens[j].user_id = last.sub /\ tokens[j].revoked
    /\ \E j \in DOMAIN tokens : tokens[j].user_id # last.sub /\ ~tokens[j].revoked

\* C21: RevokeByRawSecret(raw) never fails and returns the same result
\* whether raw matches no record, a revoked record or an active record;
\* afterwards every record whose stored hash is Hash(raw) is revoked, and
\* nothing else is changed: no record is added or removed, the records of
\* other secrets are as before, and a matching record differs at most in
\* its revoked flag.
C21_RevokeByRaw ==
    [][last'.op = "revoke_by_raw"
        => LET raw == last'.raw IN
           /\ last'.exc = "none" /\ last'.msg = ""
           /\ last'.ret_raw = 0 /\ last'.ret_jti = 0
           /\ last'.sub = "none" /\ last'.access = NoToken
           /\ \A j \in RowsOf(tokens', raw) : tokens'[j].revoked
           /\ DOMAIN tokens' = DOMAIN tokens
           /\ \A j \in DOMAIN tokens :
                 tokens'[j] = IF j \in RowsOf(tokens, raw)
                              THEN [tokens[j] EXCEPT !.revoked = TRUE]
                              ELSE tokens[j]
           /\ users' = users]_vars

\* the call revoked the active record of the secret it was given, and left
\* another record active
C21_Witness ==
    /\ last.op = "revoke_by_raw"
    /\ last.detail = "Refresh token revoked by RAW"
    /\ \E j \in RowsOf(tokens, last.raw) : tokens[j].revoked
    /\ \E j \in DOMAIN tokens : ~tokens[j].revoked

\* C22: refresh token records are append-only. No step of the engine removes
\* a record; token_id, owner_id, hashed_secret and expires_at of a record
\* never change; each record is stored under its own token_id, so no two
\* records share one; and a record that is revoked in the committed store
\* stays revoked.
C22_AppendOnly ==
    [][/\ DOMAIN tokens \subseteq DOMAIN tokens'
       /\ \A j \in DOMAIN tokens :
             /\ tokens'[j].jti = tokens[j].jti
             /\ tokens'[j].user_id = tokens[j].user_id
             /\ tokens'[j].hashed_token = tokens[j].hashed_token
             /\ tokens'[j].expires_at = tokens[j].expires_at
             /\ tokens[j].revoked => tokens'[j].revoked
       /\ \A i, j \in DOMAIN tokens' : tokens'[i].jti = tokens'[j].jti => i = j]_vars

\* a record that a rotation had revoked was then logged out by its owner, a
\* second write of its revoked flag
C22_Witness ==
    /\ last.op = "logout" /\ last.exc = "none"
    /\ tokens[last.jti].revoked
    /\ tokens[last.jti].replaced_by # NoJti

\* C23: the logout endpoint revokes the presented refresh token. Whenever a
\* logout request that carries an active refresh token (its secret alone, or
\* its secret with its token_id, in the cookie or in the body, with or without
\* a valid access token) is answered 204, the record of that token is revoked
\* afterwards and a Rotate that presents it fails.
C23_LogoutRevokes ==
    [][(last'.op = "logout_user" /\ last'.status = 204)
        => \A j \in RowsOf(tokens, last'.raw) :
              ((last'.jti = NoJti \/ last'.jti = j) /\ ~tokens[j].revoked
                  /\ tokens[j].expires_at >= now)
              => /\ tokens'[j].revoked
                 /\ refresh_with_refresh_token(users', role_permissions', tokens',
                                               last'.raw, last'.jti, now', nextId').exc
                       # "none"]_vars

\* C24: unit-of-work atomicity. A service call that raises leaves the
\* committed tables as they were, whatever it wrote before it raised; a call
\* that returns leaves them exactly as its session saw them when the block
\* ended, so every write it made is visible and nothing else is.
C24_UnitOfWork ==
    [][/\ (last'.op \in {"login", "rotate", "logout", "logout_all", "revoke_by_raw",
                         "revoke_by_jti", "logout_user"} /\ last'.exc # "none")
          => (tokens' = tokens /\ users' = users)
       /\ (last'.op = "rotate" /\ last'.exc = "none")
          => /\ tokens' = refresh_with_refresh_token(users, role_permissions, tokens,
                              last'.raw, last'.jti, now, nextId).db
             /\ tokens' # tokens
       /\ (last'.op = "login" /\ last'.exc = "none")
          => /\ last'.ret_jti \in DOMAIN tokens' \ DOMAIN tokens
             /\ tokens'[last'.ret_jti].user_id = last'.sub
             /\ users'[last'.sub].last_login = now
       /\ (last'.op = "logout" /\ last'.exc = "none")
          => tokens' = logout(users, tokens, last'.sub, last'.jti).db
       /\ (last'.op = "logout_all" /\ last'.exc = "none")
          => tokens' = logout_all_devices(users, tokens, last'.sub).db
       /\ last'.op = "revoke_by_raw"
          => tokens' = revoke_refresh_token_by_raw(users, tokens, last'.raw).db]_vars

\* a rotation wrote inside its unit of work and then raised: the reused token
\* made it revoke every token of the owner, and after the rollback a token of
\* that owner is still not revoked
C24_Witness ==
    /\ last.op = "rotate" /\ last.exc = "DomainError"
    /\ last.msg = "Refresh token invalid or expired"
    /\ \E j \in Resolved(tokens, last.raw, last.jti) :
          \E k \in DOMAIN tokens : tokens[k].user_id = tokens[j].user_id /\ ~tokens[k].revoked

\* C25: ResolveOptional returns none, and raises nothing, for every request
\* on which Resolve fails: no token, a token that does not decode (malformed
\* or expired), an unknown type, or a subject that has no record; for every
\* other request it returns the principal that Resolve returns.
C25_OptionalIsResolve ==
    last.op = "resolve_optional"
    => LET resolved == current_principal(last.token, users, role_permissions, clients, now)
       IN
       IF \/ resolved.status # 200
          \/ (resolved.kind = USER /\ resolved.user = None)
          \/ (resolved.kind = CLIENT /\ resolved.client = None)
       THEN last.principal = NoPrincipal
       ELSE last.principal = resolved

\* C26: Encode fails for every ttl <= 0, an explicitly supplied ttl of 0
\* included, and issues no token then; for a ttl > 0 it issues a token whose
\* expires_at is issued_at + ttl.
C26_EncodeTtl ==
    (last.op = "encode" /\ last.expires_minutes # <<>>)
    => LET ttl == last.expires_minutes[1] IN
       IF ttl <= 0
       THEN last.exc # "none" /\ last.token = NoToken
       ELSE /\ last.exc = "none"
            /\ last.token.claims.exp = last.token.claims.iat + ttl

\* the claims of a claim set that a caller gives to Encode
CallerClaims == {"sub", "type", "permissions", "is_superuser", "require_password_change"}

\* C27: token round trip. Decoding an unexpired token yields the claim set
\* that was encoded, equal in subject_id, type, permissions, is_superuser and
\* force_password_change, together with the token_id the server generated;
\* and the token_id of a token just encoded differs from the token_id of the
\* token encoded before it, also when the claims are the same.
C27_RoundTrip ==
    [][/\ (last'.op = "decode" /\ last'.exc = "none")
          => /\ \A claim \in CallerClaims :
                   /\ claim \in DOMAIN last'.payload
                   /\ last'.payload[claim] = last'.token.claims[claim]
             /\ "jti" \in DOMAIN last'.payload
             /\ last'.payload.jti = last'.token.claims.jti
       /\ (last'.op = "encode" /\ last'.exc = "none")
          => /\ last'.jti = bearer'.claims.jti
             /\ bearer # NoToken => bearer'.claims.jti # bearer.claims.jti]_vars

\* the source of a refresh request that has precedence: the cookie if there
\* is one, else the Refresh-Token header, else the body; <<>> if there is none
Preferred(request) ==
    IF request.cookie # <<>> THEN request.cookie
    ELSE IF request.header # <<>> THEN request.header
    ELSE request.body

\* the token_id that comes with the preferred source: the part after "::", or
\* for the header the Refresh-JTI header when there is one
PreferredJti(request) ==
    IF request.cookie = <<>> /\ request.header # <<>> /\ request.refresh_jti # NoJti
    THEN request.refresh_jti
    ELSE IF Len(Preferred(request)) = 2 THEN Preferred(request)[2] ELSE NoJti

\* Rotate is called with the secret and the token_id of the preferred source
FromPreferred(request) ==
    last.detail = ""
    => (last.raw = Preferred(request)[1] /\ last.jti = PreferredJti(request))

C29_NoTokenForInactive ==
    [][last'.op \in {"login", "rotate"}
        => /\ (last'.exc = "none" \/ last'.access # NoToken)
              => users[last'.sub].is_active
           /\ \A j \in DOMAIN tokens' \ DOMAIN tokens : users[tokens'[j].user_id].is_active]_vars

\* the record whose rotation produced record j; j itself for a record that a
\* login created
Parent(j) ==
    IF \E r \in rotated : r.new = j
    THEN LET r == CHOOSE r \in rotated : r.new = j IN
         CHOOSE k \in DOMAIN tokens : tokens[k].hashed_token = hash_refresh_token(r.raw)
    ELSE j

\* the login-created record that record j descends from
RECURSIVE Session(_)
Session(j) == IF Parent(j) = j THEN j ELSE Session(Parent(j))

\* C30: one login session never has two usable refresh tokens. In every
\* reachable state, of any two records that descend from the same
\* login-created record by rotation, at least one is revoked.
C30_OneActivePerSession ==
    \A i, j \in DOMAIN tokens :
        (i # j /\ Session(i) = Session(j)) => (tokens[i].revoked \/ tokens[j].revoked)

====
